---- MODULE Spec2Model ----
(***************************************************************************)
(* Model of my_mcp_app/server.py: the lifespan of the MongoDB client       *)
(* (app_lifespan_sync), the bridge that offloads blocking driver calls to  *)
(* a worker thread (run_sync), the four resource handlers and the two tool *)
(* handlers, over a small document store with MongoDB's insert_one /       *)
(* find_one / delete_one semantics, and the URI templates the resources    *)
(* are registered under.                                                   *)
(***************************************************************************)
EXTENDS Integers, Sequences, FiniteSets, TLC

VARIABLES
    lpc,           \* position of app_lifespan_sync
    mongo_client,  \* "none" | "open" | "closed"
    closeCount,    \* how many times mongo_client.close() has run
    ping,          \* the startup ping: "none" | "ok" | the exception it raised
    exitKind,      \* how the server's run loop ended: "none" | "normal" | "error"
    db,            \* collection name -> documents in natural order
    materialized,  \* the collections list_collection_names() reports
    nInserted,     \* documents inserted so far (next ObjectId = nInserted + 1)
    req,           \* request slot -> the request it carries and where it is
    lastOp,        \* the last handler call that ran to its end, and its outcome
    prevOp,        \* the call that ended right before lastOp, kept when it
                   \* was a tool call that reported success (else NoOp)
    uri,           \* router: the URI being resolved
    route,         \* router: what the URI resolved to
    conc,          \* history: the requests that were in flight when lastOp
                   \* ended (last) and when the call before it ended (prev)
    bridge         \* the last call of run_sync made on its own, and what it gave

vars == <<lpc, mongo_client, closeCount, ping, exitKind, db, materialized,
          nInserted, req, lastOp, prevOp, uri, route, conc, bridge>>

lifeVars == <<lpc, mongo_client, closeCount, ping, exitKind>>
opVars == <<lastOp, prevOp>>
dataVars == <<db, materialized, nInserted>>
routerVars == <<uri, route>>
histVars == <<conc, bridge>>

----------------------------------------------------------------------------
(* Bounds *)

\* at most this many documents are inserted in one run
MaxDocs == 2

\* cursor limit of list_all_in_collection
ListLimit == 20

\* at most this many documents are inserted in one run of the bulk
\* specification, whose collection outgrows the cursor limit
MaxBulk == 21

----------------------------------------------------------------------------
(* Values *)

Slots == {"r1", "r2"}
OneSlot == {"r1"}

ValidCollections == {"parts", "tools"}
\* names pymongo's Collection() rejects with InvalidName (empty, containing "$", ...)
InvalidCollections == {"bad$"}
Names == {"widget", "gear"}
NoArg == "-"

ObjectId(k) == [t |-> "ObjectId", enc |-> "raw", v |-> k]
IntId(k) == [t |-> "int", enc |-> "raw", v |-> k]
\* an _id the caller puts into item_data (JSON carries no ObjectId)
UserIds == {IntId(7)}

\* Python's str() of an _id value: the 24 hex digits of an ObjectId, the
\* decimal digits of an int, a str unchanged
Str(id) ==
    CASE id.t = "ObjectId" -> [t |-> "str", enc |-> "hex", v |-> id.v]
      [] id.t = "int" -> [t |-> "str", enc |-> "dec", v |-> id.v]
      [] OTHER -> id

NoDoc == [name |-> NoArg]
Dict(fields) == [type |-> "dict", fields |-> fields]
NotADict == [type |-> "str", fields |-> NoDoc]
NoData == [type |-> "none", fields |-> NoDoc]

DictsOver(N, I) ==
    {Dict([name |-> n]) : n \in N} \cup
    {Dict([name |-> n, _id |-> i]) : n \in N, i \in I}

\* how a call ends: by returning the record val, or by raising val.exc
Return(v) == [kind |-> "return", val |-> v]
Raise(e) == [kind |-> "raise", val |-> [exc |-> e]]

Call(h, c, n, d) == [h |-> h, c |-> c, n |-> n, d |-> d]
NoCall == Call("none", NoArg, NoArg, NoData)

----------------------------------------------------------------------------
(* The datastore, as the driver calls of the handlers see it *)

Store == [db |-> db, materialized |-> materialized, nInserted |-> nInserted]

Docs(S, c) == S.db[c]

Matching(docs, n) == {i \in 1..Len(docs) : docs[i].name = n}

Min(s) == CHOOSE x \in s : \A y \in s : x <= y

\* collection.find_one({"name": n}): the first match in natural order
find_one(docs, n) ==
    IF Matching(docs, n) = {} THEN NoDoc ELSE docs[Min(Matching(docs, n))]

Remove(docs, i) == [j \in 1..(Len(docs) - 1) |-> IF j < i THEN docs[j] ELSE docs[j + 1]]

SelectSeq2(docs, n) ==
    LET keep(d) == d.name # n IN SelectSeq(docs, keep)

\* delete_many in the place of delete_one
delete_one_as_many(docs, n) ==
    [docs |-> SelectSeq2(docs, n), deleted_count |-> Cardinality(Matching(docs, n))]

\* a delete that takes its count from a find made before it: two requests
\* that saw the same document both count it
delete_one_stale(docs, n) ==
    IF Matching(docs, n) = {} THEN [docs |-> docs, deleted_count |-> 1]
    ELSE [docs |-> Remove(docs, Min(Matching(docs, n))), deleted_count |-> 1]

\* delete_one({}) in the place of delete_one({"name": n})
delete_one_any(docs, n) ==
    IF docs = <<>> THEN [docs |-> docs, deleted_count |-> 0]
    ELSE [docs |-> Tail(docs), deleted_count |-> 1]

\* collection.delete_one({"name": n}): removes the first match, if any
delete_one(docs, n) ==
    IF Matching(docs, n) = {} THEN [docs |-> docs, deleted_count |-> 0]
    ELSE [docs |-> Remove(docs, Min(Matching(docs, n))), deleted_count |-> 1]

HasId(fields) == "_id" \in DOMAIN fields

\* the document insert_one stores: item_data, with a fresh ObjectId when it
\* carries no _id
Stored(fields, k) ==
    IF HasId(fields) THEN [_id |-> fields._id, name |-> fields.name]
    ELSE [_id |-> ObjectId(k), name |-> fields.name]

\* the _id index of a collection is unique
DuplicateKey(docs, doc) == \E i \in 1..Len(docs) : docs[i]._id = doc._id

----------------------------------------------------------------------------
(* The handlers' db_call_sync bodies.  Each takes the store it runs on and  *)
(* the exception, if any, its driver call raises ("none": the call goes     *)
(* through), and gives its outcome and the store it leaves.  A driver call  *)
(* that raises one of DriverErrors leaves the store as it was; one that     *)
(* raises LateError has done its write.                                     *)

DriverErrors == {"ConnectionFailure", "OperationFailure"}
\* pymongo.errors.NetworkTimeout, a ConnectionFailure: the connection is lost
\* while the driver waits for the reply, the server having run the command
LateError == "NetworkTimeout"
\* raised by a driver call on a client that has been closed (pymongo >= 4)
ClosedError == "InvalidOperation"

Result(out, S) == [out |-> out, store |-> S]

Normalize_keeps_ObjectId(doc) == doc

\* line 101-102, 120-121: an ObjectId _id is replaced by its string
Normalize(doc) ==
    IF doc._id.t = "ObjectId" THEN [doc EXCEPT !._id = Str(doc._id)] ELSE doc

\* line 75-80
check_connection_sync(S, fault) ==
    IF fault = "none" THEN Result(Return([db_status |-> "Connected"]), S)
    ELSE IF fault \in {"ConnectionFailure", LateError}
    THEN Result(Return([db_status |-> "Connection Error"]), S)
    ELSE Result(Raise(fault), S)

\* find_one_and_delete in the place of find_one
get_mongo_item_sync_pops(c, n, S, fault) ==
    IF c \in InvalidCollections THEN Result(Raise("InvalidName"), S)
    ELSE IF fault # "none" THEN Result(Raise(fault), S)
    ELSE LET document == find_one(Docs(S, c), n)
             left == [S EXCEPT !.db[c] = delete_one(Docs(S, c), n).docs]
         IN IF document # NoDoc
            THEN Result(Return([found |-> TRUE, collection |-> c,
                                item |-> Normalize(document)]), left)
            ELSE Result(Return([found |-> FALSE, collection |-> c,
                                query |-> [name |-> n],
                                message |-> "Item not found"]), S)

\* line 96-105
get_mongo_item_sync(c, n, S, fault) ==
    IF c \in InvalidCollections THEN Result(Raise("InvalidName"), S)
    ELSE IF fault # "none" THEN Result(Raise(fault), S)
    ELSE LET document == find_one(Docs(S, c), n)
         IN IF document # NoDoc
            THEN Result(Return([found |-> TRUE, collection |-> c,
                                item |-> Normalize(document)]), S)
            ELSE Result(Return([found |-> FALSE, collection |-> c,
                                query |-> [name |-> n],
                                message |-> "Item not found"]), S)

\* a cursor without .limit(20)
Limit_none(docs, k) == docs

\* line 118: the first k documents of the cursor
Limit(docs, k) == SubSeq(docs, 1, IF Len(docs) < k THEN Len(docs) ELSE k)

\* line 114-123
list_all_sync(c, S, fault) ==
    IF c \in InvalidCollections THEN Result(Raise("InvalidName"), S)
    ELSE IF fault # "none" THEN Result(Raise(fault), S)
    ELSE LET cursor == Limit(Docs(S, c), ListLimit)
             documents_list == [i \in 1..Len(cursor) |-> Normalize(cursor[i])]
         IN Result(Return([collection |-> c, count |-> Len(documents_list),
                           items |-> documents_list]), S)

ErrorListing(e) ==
    CASE e = "ConnectionFailure" -> "Error listing collections: ConnectionFailure"
      [] e = "OperationFailure" -> "Error listing collections: OperationFailure"
      [] e = LateError -> "Error listing collections: NetworkTimeout"
      [] OTHER -> "Error listing collections: InvalidOperation"

\* line 131-135
list_collections_sync(S, fault) ==
    IF fault = "none" THEN Result(Return([names |-> S.materialized]), S)
    ELSE Result(Return([names |-> {ErrorListing(fault)}]), S)

\* insert_one with write concern w=0: a write the server refuses is not reported
add_mongo_item_sync_unacked(c, d, S, fault) ==
    IF c \in InvalidCollections THEN Result(Raise("InvalidName"), S)
    ELSE IF d.type # "dict"
    THEN Result(Return([success |-> FALSE,
                        error |-> "item_data must be a dictionary"]), S)
    ELSE IF fault \notin {"none", LateError}
    THEN Result(Return([success |-> FALSE, error |-> fault]), S)
    ELSE LET doc == Stored(d.fields, S.nInserted + 1)
             ok == Return([success |-> TRUE, collection |-> c,
                           inserted_id |-> Str(doc._id)])
         IN IF DuplicateKey(Docs(S, c), doc) THEN Result(ok, S)
            ELSE Result(ok, [db |-> [S.db EXCEPT ![c] = Append(@, doc)],
                             materialized |-> S.materialized \cup {c},
                             nInserted |-> S.nInserted + 1])

\* line 145-158
add_mongo_item_sync(c, d, S, fault) ==
    IF c \in InvalidCollections THEN Result(Raise("InvalidName"), S)
    ELSE IF d.type # "dict"
    THEN Result(Return([success |-> FALSE,
                        error |-> "item_data must be a dictionary"]), S)
    ELSE IF fault \notin {"none", LateError}
    THEN Result(Return([success |-> FALSE, error |-> fault]), S)
    ELSE LET doc == Stored(d.fields, S.nInserted + 1)
             inserted == [db |-> [S.db EXCEPT ![c] = Append(@, doc)],
                          materialized |-> S.materialized \cup {c},
                          nInserted |-> S.nInserted + 1]
         IN IF DuplicateKey(Docs(S, c), doc)
            THEN Result(Return([success |-> FALSE,
                                error |-> IF fault = LateError THEN LateError
                                          ELSE "DuplicateKeyError"]), S)
            ELSE IF fault = LateError
            THEN Result(Return([success |-> FALSE, error |-> LateError]), inserted)
            ELSE Result(Return([success |-> TRUE, collection |-> c,
                                inserted_id |-> Str(doc._id)]), inserted)

\* "deleted_count >= 0" in the place of "deleted_count > 0"
delete_mongo_item_sync_ge(c, n, S, fault) ==
    IF c \in InvalidCollections THEN Result(Raise("InvalidName"), S)
    ELSE IF fault # "none"
    THEN Result(Return([success |-> FALSE, error |-> fault]), S)
    ELSE LET result == delete_one(Docs(S, c), n)
             query == [name |-> n]
         IN Result(Return([success |-> TRUE,
                           deleted_count |-> result.deleted_count,
                           query |-> query]),
                   [S EXCEPT !.db[c] = result.docs])

\* line 167-177
delete_mongo_item_sync(c, n, S, fault) ==
    IF c \in InvalidCollections THEN Result(Raise("InvalidName"), S)
    ELSE IF fault \notin {"none", LateError}
    THEN Result(Return([success |-> FALSE, error |-> fault]), S)
    ELSE LET result == delete_one(Docs(S, c), n)
             query == [name |-> n]
         IN IF fault = LateError
            THEN Result(Return([success |-> FALSE, error |-> LateError]),
                        [S EXCEPT !.db[c] = result.docs])
            ELSE IF result.deleted_count > 0
            THEN Result(Return([success |-> TRUE,
                                deleted_count |-> result.deleted_count,
                                query |-> query]),
                        [S EXCEPT !.db[c] = result.docs])
            ELSE Result(Return([success |-> FALSE, deleted_count |-> 0,
                                message |-> "No item found matching query",
                                query |-> query]), S)

\* whether db_call_sync of this call gets as far as a call on the client
ReachesDriver(call) ==
    CASE call.h \in {"get_app_info", "list_mongo_collections"} -> TRUE
      [] call.h = "add_mongo_item" ->
            call.c \notin InvalidCollections /\ call.d.type = "dict"
      [] OTHER -> call.c \notin InvalidCollections

db_call_sync(call, S, fault) ==
    CASE call.h = "get_app_info" -> check_connection_sync(S, fault)
      [] call.h = "get_mongo_item" -> get_mongo_item_sync(call.c, call.n, S, fault)
      [] call.h = "list_all_in_collection" -> list_all_sync(call.c, S, fault)
      [] call.h = "list_mongo_collections" -> list_collections_sync(S, fault)
      [] call.h = "add_mongo_item" -> add_mongo_item_sync(call.c, call.d, S, fault)
      [] OTHER -> delete_mongo_item_sync(call.c, call.n, S, fault)

\* the contexts a coroutine of run_sync is driven in: by a running asyncio
\* event loop (every handler under FastMCP), or with no event loop running
Loops == {"running", "none"}

\* line 60-64, for func ending with outcome.  Line 61: without a running
\* loop asyncio.get_running_loop() raises RuntimeError, before func is
\* called; the loop it returns otherwise is the running one, is_running()
\* holds and line 62 awaits func in a worker thread: what func returns is
\* returned, what it raises is raised.  Line 64 is never reached.
run_sync_in(loop, outcome) ==
    IF loop = "none" THEN [ran |-> FALSE, out |-> Raise("RuntimeError")]
    ELSE [ran |-> TRUE,
          out |-> IF outcome.kind = "raise" THEN Raise(outcome.val.exc)
                  ELSE Return(outcome.val)]

\* run_sync with "except Exception: raise RuntimeError(...)" around the await
run_sync_replaces(outcome) ==
    IF outcome.kind = "raise" THEN Raise("RuntimeError") ELSE Return(outcome.val)

\* line 60-64 under the event loop of the server
run_sync(outcome) == run_sync_in("running", outcome).out

\* line 82-90: get_app_info wraps the status; the others return run_sync's value
Handler(call, S, fault) ==
    LET r == db_call_sync(call, S, fault)
        got == run_sync(r.out)
    IN IF call.h = "get_app_info" /\ got.kind = "return"
       THEN Result(Return([server_name |-> "PyMongoDemoServer",
                           server_version |-> "1.0.0",
                           database_name |-> "my_mcp_db_sync",
                           db_status |-> got.val.db_status]), r.store)
       ELSE Result(got, r.store)

----------------------------------------------------------------------------
(* The resource templates, in registration order, and the segment-wise      *)
(* matching rule.  A URI is the sequence of its "/"-separated segments:     *)
(* mongo://parts/widget is <<"mongo:", "", "parts", "widget">>.             *)

Lit(s) == [kind |-> "lit", s |-> s]
Param(s) == [kind |-> "param", s |-> s]

Templates == <<
    [pattern |-> <<Lit("app:"), Lit(""), Lit("info")>>,
     handler |-> "get_app_info"],
    [pattern |-> <<Lit("mongo:"), Lit(""), Param("collection_name"), Param("item_id")>>,
     handler |-> "get_mongo_item"],
    [pattern |-> <<Lit("mongo:"), Lit(""), Param("collection_name"), Lit("list_all")>>,
     handler |-> "list_all_in_collection"],
    [pattern |-> <<Lit("mongo:"), Lit(""), Lit("collections")>>,
     handler |-> "list_mongo_collections"] >>

\* equal segment count, literals equal, placeholders take any non-empty value
Matches(pattern, u) ==
    /\ Len(pattern) = Len(u)
    /\ \A i \in 1..Len(pattern) :
          IF pattern[i].kind = "lit" THEN u[i] = pattern[i].s ELSE u[i] # ""

MatchingTemplates(u) == {i \in 1..Len(Templates) : Matches(Templates[i].pattern, u)}

ParamAt(pattern, u, name) ==
    LET at == {i \in 1..Len(pattern) : pattern[i] = Param(name)}
    IN IF at = {} THEN NoArg ELSE u[Min(at)]

\* the handler call a template makes of a URI: placeholders bound by name
BoundCall(i, u) ==
    Call(Templates[i].handler,
         ParamAt(Templates[i].pattern, u, "collection_name"),
         ParamAt(Templates[i].pattern, u, "item_id"),
         NoData)

\* resolve(uri): any template that matches; none: NotFoundError
Resolutions(u) ==
    IF MatchingTemplates(u) = {} THEN {Call("NotFoundError", NoArg, NoArg, NoData)}
    ELSE {BoundCall(i, u) : i \in MatchingTemplates(u)}

Mongo(c, x) == <<"mongo:", "", c, x>>
AppInfoUri == <<"app:", "", "info">>
CollectionsUri == <<"mongo:", "", "collections">>

\* the URIs the requests of the server model are drawn from
ResourceUris(C, N) ==
    {AppInfoUri, CollectionsUri} \cup {Mongo(c, x) : c \in C, x \in N \cup {"list_all"}}

----------------------------------------------------------------------------
(* State *)

Idle == [pc |-> "idle", call |-> NoCall]
InFlight(call) == [pc |-> "inflight", call |-> call]

\* a finished call: its slot, its arguments, its outcome, the state of the
\* client it ran on, how many documents of call.c bore its name when it ran,
\* and func, the outcome of the db_call_sync it handed to run_sync
NoOp == [r |-> "none", call |-> NoCall, out |-> Return(NoDoc), client |-> "none",
         matched |-> 0, func |-> Return(NoDoc)]

NoConc == [last |-> {}, prev |-> {}]

NoBridge == [loop |-> NoArg, call |-> NoCall, func |-> Return(NoDoc), ran |-> FALSE,
             out |-> Return(NoDoc)]

Init ==
    /\ lpc = "start"
    /\ mongo_client = "none"
    /\ closeCount = 0
    /\ ping = "none"
    /\ exitKind = "none"
    /\ db = [c \in ValidCollections |-> <<>>]
    /\ materialized = {}
    /\ nInserted = 0
    /\ req = [r \in Slots |-> Idle]
    /\ lastOp = NoOp
    /\ prevOp = NoOp
    /\ uri = <<>>
    /\ route = NoCall
    /\ conc = NoConc
    /\ bridge = NoBridge

----------------------------------------------------------------------------
(* app_lifespan_sync *)

\* line 30
CreateClient ==
    /\ lpc = "start"
    /\ lpc' = "created"
    /\ mongo_client' = "open"
    /\ UNCHANGED <<closeCount, ping, exitKind, dataVars, req, opVars, routerVars, histVars>>

\* line 32-42: the ping answers, the AppContext is yielded
PingOk ==
    /\ lpc = "created"
    /\ lpc' = "yielded"
    /\ ping' = "ok"
    /\ UNCHANGED <<mongo_client, closeCount, exitKind, dataVars, req, opVars, routerVars, histVars>>

PingFail_swallowed(e) ==
    /\ lpc = "created"
    /\ lpc' = "yielded"
    /\ ping' = e
    /\ UNCHANGED <<mongo_client, closeCount, exitKind, dataVars, req, opVars, routerVars, histVars>>

\* line 33-37: the ping raises; ConnectionFailure is re-raised, anything else
\* is not caught, and either way the function is left before line 41
PingFail(e) ==
    /\ lpc = "created"
    /\ lpc' = "raised"
    /\ ping' = e
    /\ UNCHANGED <<mongo_client, closeCount, exitKind, dataVars, req, opVars, routerVars, histVars>>

\* the with-block around the yield ends: the server's run loop returned or raised
RunLoopExit(kind) ==
    /\ lpc = "yielded"
    /\ lpc' = "finally"
    /\ exitKind' = kind
    /\ UNCHANGED <<mongo_client, closeCount, ping, dataVars, req, opVars, routerVars, histVars>>

LifespanFinally_no_close ==
    /\ lpc = "finally"
    /\ lpc' = "done"
    /\ UNCHANGED <<mongo_client, closeCount, ping, exitKind, dataVars, req, opVars, routerVars, histVars>>

\* line 43-48; "if mongo_client:" holds, a MongoClient being a plain object
LifespanFinally ==
    /\ lpc = "finally"
    /\ lpc' = "done"
    /\ mongo_client' = "closed"
    /\ closeCount' = closeCount + 1
    /\ UNCHANGED <<ping, exitKind, dataVars, req, opVars, routerVars, histVars>>

Accepting == lpc = "yielded"

----------------------------------------------------------------------------
(* Requests *)

PendingAdds == Cardinality({r \in Slots : req[r] # Idle /\ req[r].call.h = "add_mongo_item"})

\* the name a call is about: item_id, item_name_to_delete, item_data["name"]
NameOf(call) == IF call.h = "add_mongo_item" THEN call.d.fields.name ELSE call.n

Matched(call) ==
    IF call.c \in ValidCollections THEN Cardinality(Matching(db[call.c], NameOf(call)))
    ELSE 0

ToolSucceeded(op) ==
    /\ op.call.h \in {"add_mongo_item", "delete_mongo_item"}
    /\ op.out.kind = "return"
    /\ op.out.val.success

\* "return db_call_sync()" in the place of "return await run_sync(db_call_sync)":
\* the driver call runs in the handler itself, on the event loop
Begin_direct(r, call) ==
    LET res == Handler(call, Store, "none")
    IN /\ req[r] = Idle
       /\ db' = res.store.db
       /\ materialized' = res.store.materialized
       /\ nInserted' = res.store.nInserted
       /\ lastOp' = [r |-> r, call |-> call, out |-> res.out,
                     client |-> mongo_client, matched |-> Matched(call),
                     func |-> db_call_sync(call, Store, "none").out]
       /\ prevOp' = IF ToolSucceeded(lastOp) THEN lastOp ELSE NoOp
       /\ UNCHANGED <<req, lifeVars, routerVars, histVars>>

\* db_call_sync() called in the handler itself: the event loop is held until
\* it returns, and no other handler starts meanwhile
Begin_blocking(r, call) ==
    /\ \A r2 \in Slots : req[r2] = Idle
    /\ req' = [req EXCEPT ![r] = InFlight(call)]
    /\ UNCHANGED <<lifeVars, dataVars, opVars, routerVars, histVars>>

\* a handler runs up to its await run_sync(...): the call is handed to a worker
Begin(r, call) ==
    /\ req[r] = Idle
    /\ req' = [req EXCEPT ![r] = InFlight(call)]
    /\ UNCHANGED <<lifeVars, dataVars, opVars, routerVars, histVars>>

\* a resource request: the handler of a template that matches the URI
ReadResource(r, u) ==
    /\ Accepting
    /\ \E i \in MatchingTemplates(u) : Begin(r, BoundCall(i, u))

\* line 141-160, up to the await; at most max documents are inserted in a run
CallAddUpTo(max, r, c, d) ==
    /\ Accepting
    /\ nInserted + PendingAdds < max
    /\ Begin(r, Call("add_mongo_item", c, NoArg, d))

CallAdd(r, c, d) == CallAddUpTo(MaxDocs, r, c, d)

\* line 163-179, up to the await
CallDelete(r, c, n) ==
    /\ Accepting
    /\ Begin(r, Call("delete_mongo_item", c, n, NoData))

Finish(r, fault) ==
    LET res == Handler(req[r].call, Store, fault)
    IN /\ db' = res.store.db
       /\ materialized' = res.store.materialized
       /\ nInserted' = res.store.nInserted
       /\ lastOp' = [r |-> r, call |-> req[r].call, out |-> res.out,
                     client |-> mongo_client, matched |-> Matched(req[r].call),
                     func |-> db_call_sync(req[r].call, Store, fault).out]
       /\ prevOp' = IF ToolSucceeded(lastOp) THEN lastOp ELSE NoOp
       /\ req' = [req EXCEPT ![r] = Idle]
       /\ UNCHANGED <<lifeVars, routerVars, bridge>>

\* the worker thread runs db_call_sync and every driver call goes through
WorkerRun(r) ==
    /\ req[r].pc = "inflight"
    /\ Finish(r, "none")
    /\ UNCHANGED conc

\* WorkerRun, with the requests that are in flight beside r written to conc
WorkerRunConc(r) ==
    /\ req[r].pc = "inflight"
    /\ Finish(r, "none")
    /\ conc' = [last |-> {r2 \in Slots \ {r} : req[r2].pc = "inflight"},
                prev |-> conc.last]

\* the worker thread runs db_call_sync and its driver call raises e
WorkerFault(r, e) ==
    /\ req[r].pc = "inflight"
    /\ ReachesDriver(req[r].call)
    /\ e = ClosedError => mongo_client = "closed"
    /\ Finish(r, e)
    /\ UNCHANGED conc

----------------------------------------------------------------------------
(* run_sync on its own *)

\* run_sync(db_call_sync) is awaited in the context loop, db_call_sync being
\* the one of call on the store as it is; fault is what its driver call raises
Invoke(loop, call, fault) ==
    LET f == db_call_sync(call, Store, fault)
        got == run_sync_in(loop, f.out)
        S == IF got.ran THEN f.store ELSE Store
    IN /\ call.h = "add_mongo_item" => nInserted < MaxDocs
       /\ fault # "none" => ReachesDriver(call)
       /\ bridge' = [loop |-> loop, call |-> call, func |-> f.out, ran |-> got.ran,
                     out |-> got.out]
       /\ db' = S.db
       /\ materialized' = S.materialized
       /\ nInserted' = S.nInserted
       /\ UNCHANGED <<lifeVars, req, opVars, routerVars, conc>>

----------------------------------------------------------------------------
(* The router on its own *)

Segments == {"", "info", "collections", "list_all", "parts", "widget"}
Schemes == {"app:", "mongo:"}
Uris ==
    {<<s, "", a>> : s \in Schemes, a \in Segments} \cup
    {<<s, "", a, b>> : s \in Schemes, a \in Segments, b \in Segments}

Receive(u) ==
    /\ uri' = u
    /\ route' = NoCall
    /\ UNCHANGED <<lifeVars, dataVars, req, opVars, histVars>>

Resolve ==
    /\ uri # <<>>
    /\ route = NoCall
    /\ route' \in Resolutions(uri)
    /\ UNCHANGED <<uri, lifeVars, dataVars, req, opVars, histVars>>

----------------------------------------------------------------------------
(* Specifications *)

Collections == ValidCollections \cup InvalidCollections
ItemData == DictsOver(Names, UserIds) \cup {NotADict}

\* the server with two requests at a time, over one collection and one name
SrvCollections == {"parts"} \cup InvalidCollections
SrvNames == {"widget"}
SrvItemData == DictsOver(SrvNames, {}) \cup {NotADict}

Lifespan ==
    \/ CreateClient
    \/ PingOk
    \/ \E e \in DriverErrors : PingFail(e)
    \/ \E kind \in {"normal", "error"} : RunLoopExit(kind)
    \/ LifespanFinally

Next ==
    \/ Lifespan
    \/ \E r \in Slots, u \in ResourceUris(SrvCollections, SrvNames) : ReadResource(r, u)
    \/ \E r \in Slots, c \in SrvCollections, d \in SrvItemData : CallAdd(r, c, d)
    \/ \E r \in Slots, c \in SrvCollections, n \in SrvNames : CallDelete(r, c, n)
    \/ \E r \in Slots : WorkerRun(r)
    \/ \E r \in Slots, e \in DriverErrors \cup {ClosedError} : WorkerFault(r, e)

Spec == Init /\ [][Next]_vars

\* one request at a time on a server that stays up and a datastore that
\* answers, over every collection, name and item_data
DataNext ==
    \/ CreateClient
    \/ PingOk
    \/ \E r \in OneSlot, u \in ResourceUris(Collections, Names) : ReadResource(r, u)
    \/ \E r \in OneSlot, c \in Collections, d \in ItemData : CallAdd(r, c, d)
    \/ \E r \in OneSlot, c \in Collections, n \in Names : CallDelete(r, c, n)
    \/ \E r \in OneSlot : WorkerRun(r)

DataSpec == Init /\ [][DataNext]_vars

\* the server with one request at a time; once the run loop has ended, the
\* with-block is left and the finally clause of app_lifespan_sync runs
OneNext ==
    \/ Lifespan
    \/ \E r \in OneSlot, u \in ResourceUris(SrvCollections, SrvNames) : ReadResource(r, u)
    \/ \E r \in OneSlot, c \in SrvCollections, d \in SrvItemData : CallAdd(r, c, d)
    \/ \E r \in OneSlot, c \in SrvCollections, n \in SrvNames : CallDelete(r, c, n)
    \/ \E r \in OneSlot : WorkerRun(r)
    \/ \E r \in OneSlot, e \in DriverErrors \cup {ClosedError} : WorkerFault(r, e)

FairSpec == Init /\ [][OneNext]_vars /\ WF_vars(LifespanFinally)

\* one request at a time on a collection that grows past the cursor limit of
\* list_all_in_collection
BulkNext ==
    \/ CreateClient
    \/ PingOk
    \/ \E r \in OneSlot : ReadResource(r, Mongo("parts", "list_all"))
    \/ \E r \in OneSlot, d \in DictsOver(SrvNames, {}) : CallAddUpTo(MaxBulk, r, "parts", d)
    \/ \E r \in OneSlot, n \in SrvNames : CallDelete(r, "parts", n)
    \/ \E r \in OneSlot : WorkerRun(r)

BulkSpec == Init /\ [][BulkNext]_vars

\* two requests at a time on a server that stays up and a datastore that
\* answers, over one collection and one name
ConcNext ==
    \/ CreateClient
    \/ PingOk
    \/ \E r \in Slots, u \in ResourceUris(SrvCollections, SrvNames) : ReadResource(r, u)
    \/ \E r \in Slots, c \in SrvCollections, d \in SrvItemData : CallAdd(r, c, d)
    \/ \E r \in Slots, c \in SrvCollections, n \in SrvNames : CallDelete(r, c, n)
    \/ \E r \in Slots : WorkerRunConc(r)

ConcSpec == Init /\ [][ConcNext]_vars

\* the calls the handlers make over one collection and one name
SrvCalls ==
    UNION {{BoundCall(i, u) : i \in MatchingTemplates(u)} :
              u \in ResourceUris(SrvCollections, SrvNames)}
    \cup {Call("add_mongo_item", c, NoArg, d) : c \in SrvCollections, d \in SrvItemData}
    \cup {Call("delete_mongo_item", c, n, NoData) : c \in SrvCollections, n \in SrvNames}

\* run_sync applied to every db_call_sync, with and without a running loop
BridgeNext ==
    \E loop \in Loops, call \in SrvCalls, fault \in {"none"} \cup DriverErrors :
        Invoke(loop, call, fault)

BridgeSpec == Init /\ [][BridgeNext]_vars

\* one request at a time on a server that stays up and a datastore whose
\* driver calls may raise, before or after a write is done, over every
\* collection and one name
FaultItemData == DictsOver(SrvNames, UserIds) \cup {NotADict}

FaultNext ==
    \/ CreateClient
    \/ PingOk
    \/ \E r \in OneSlot, u \in ResourceUris(Collections, SrvNames) : ReadResource(r, u)
    \/ \E r \in OneSlot, c \in Collections, d \in FaultItemData : CallAdd(r, c, d)
    \/ \E r \in OneSlot, c \in Collections, n \in SrvNames : CallDelete(r, c, n)
    \/ \E r \in OneSlot : WorkerRun(r)
    \/ \E r \in OneSlot, e \in DriverErrors \cup {LateError} : WorkerFault(r, e)

FaultSpec == Init /\ [][FaultNext]_vars

RouterNext ==
    \/ \E u \in Uris : Receive(u)
    \/ Resolve

RouterSpec == Init /\ [][RouterNext]_vars

----------------------------------------------------------------------------
(* Claims about the lifespan and the handlers' error handling *)

\* C1: no handler's driver call runs on the client after app_lifespan_sync
\* has closed it, and the client is open whenever the server accepts requests.
C1_NoUseAfterClose ==
    /\ ~(lastOp.client = "closed" /\ ReachesDriver(lastOp.call))
    /\ Accepting => mongo_client = "open"

\* C2: once the startup ping has failed, app_lifespan_sync has raised without
\* yielding: the server accepts nothing, no handler is running and none has run.
C2_FailedPingServesNothing ==
    ping \in DriverErrors =>
        /\ lpc = "raised"
        /\ \A r \in Slots : req[r] = Idle
        /\ lastOp.r = "none"

C2_Witness == lpc = "raised" /\ ping = "ConnectionFailure"

\* C3: whenever app_lifespan_sync has been left with the client created (by
\* the end of the run loop, normal or not, or by a failed ping), the client
\* has been closed.
C3_ClosedOnEveryExit ==
    (lpc \in {"done", "raised"} /\ mongo_client # "none") => mongo_client = "closed"

\* C4: the client is created once and closed exactly once: close() never runs
\* a second time, it runs only in the finally clause of app_lifespan_sync (no
\* handler step closes the client), a closed client is never opened again, and
\* once the run loop of a server that yielded its AppContext has ended, close()
\* eventually runs.
C4_ClosedExactlyOnce ==
    /\ [](closeCount <= 1)
    /\ [](lpc = "done" => closeCount = 1 /\ mongo_client = "closed")
    /\ [][closeCount' # closeCount => lpc = "finally" /\ lpc' = "done"]_vars
    /\ [][mongo_client' # mongo_client =>
            \/ mongo_client = "none" /\ mongo_client' = "open"
            \/ mongo_client = "open" /\ mongo_client' = "closed"]_vars
    /\ (lpc = "finally" ~> closeCount = 1)

C4_Witness ==
    lpc = "done" /\ closeCount = 1 /\ lastOp.call.h = "delete_mongo_item"

\* C5: no exception of the driver leaves a handler: every handler call that
\* ran on the open client of a serving server ended by returning a result.
C5_NoExceptionLeavesHandler ==
    lastOp.client = "open" => lastOp.out.kind = "return"

----------------------------------------------------------------------------
(* Claims about the resource templates *)

\* C6: no URI matches more than one of the four registered templates.
C6_NoUriMatchesTwoTemplates == Cardinality(MatchingTemplates(uri)) <= 1

\* C7: a URI that matches a template resolves to that template's handler,
\* with the placeholder values bound to the placeholder names.
C7_ResolvesToOwnHandler ==
    route # NoCall => \A i \in MatchingTemplates(uri) : route = BoundCall(i, uri)

----------------------------------------------------------------------------
(* Claims about the tools and the store *)

\* prevOp is add_mongo_item(c, d), which reported success, and lastOp, the
\* next call to end, is get_mongo_item(c, d["name"])
AddThenGet ==
    /\ prevOp.call.h = "add_mongo_item"
    /\ lastOp.call.h = "get_mongo_item"
    /\ lastOp.call.c = prevOp.call.c
    /\ lastOp.call.n = prevOp.call.d.fields.name

DeleteTwice ==
    /\ prevOp.call.h = "delete_mongo_item"
    /\ lastOp.call = prevOp.call

DeleteOf(op) == op.call.h = "delete_mongo_item" /\ op.call.c \in ValidCollections

Deleted(n) == Return([success |-> TRUE, deleted_count |-> 1, query |-> [name |-> n]])

NoneDeleted(n) ==
    Return([success |-> FALSE, deleted_count |-> 0,
            message |-> "No item found matching query", query |-> [name |-> n]])

\* C9, as claimed: delete_mongo_item(c, n) with a document named n in c
\* returns success:true, deleted_count 1, query {name: n}; the same call made
\* right after it returns success:false, deleted_count 0 and the message.
C9_DeleteThenDeleteAgain ==
    /\ (DeleteOf(lastOp) /\ lastOp.matched >= 1) => lastOp.out = Deleted(lastOp.call.n)
    /\ DeleteTwice => lastOp.out = NoneDeleted(lastOp.call.n)

\* C9, amended: the second call returns success:false, deleted_count 0 when
\* the first found exactly one document named n in c; when it found several,
\* the second removes the next one and returns success:true, deleted_count 1.
C9_DeleteAgainByMatches ==
    /\ (DeleteOf(lastOp) /\ lastOp.matched >= 1) => lastOp.out = Deleted(lastOp.call.n)
    /\ (DeleteOf(lastOp) /\ lastOp.matched = 0) => lastOp.out = NoneDeleted(lastOp.call.n)
    /\ DeleteTwice =>
          /\ lastOp.matched = prevOp.matched - 1
          /\ lastOp.out = IF prevOp.matched = 1 THEN NoneDeleted(lastOp.call.n)
                          ELSE Deleted(lastOp.call.n)

C9_Witness ==
    /\ DeleteTwice
    /\ prevOp.matched = 1
    /\ lastOp.out = NoneDeleted(lastOp.call.n)

\* C10: a delete_mongo_item(c, n) call leaves every other collection as it
\* was, removes from c either nothing or one document whose name is n, and
\* the deleted_count it reports, 0 or 1, is the number of documents it
\* removed (a call that reports an error instead reports no deleted_count).
C10_DeleteRemovesAtMostOne ==
    [][\A r \in Slots :
          (req[r].pc = "inflight" /\ req[r].call.h = "delete_mongo_item" /\ req'[r] = Idle)
          => LET c == req[r].call.c
                 n == req[r].call.n
             IN /\ \A c2 \in ValidCollections \ {c} : db'[c2] = db[c2]
                /\ c \in ValidCollections =>
                      /\ \/ db'[c] = db[c]
                         \/ \E i \in 1..Len(db[c]) :
                               db[c][i].name = n /\ db'[c] = Remove(db[c], i)
                      /\ lastOp'.out.kind = "return"
                      /\ "deleted_count" \in DOMAIN lastOp'.out.val =>
                            /\ lastOp'.out.val.deleted_count \in {0, 1}
                            /\ lastOp'.out.val.deleted_count = Len(db[c]) - Len(db'[c])
                      /\ "deleted_count" \notin DOMAIN lastOp'.out.val =>
                            "error" \in DOMAIN lastOp'.out.val]_vars

\* a delete that found several documents named n and left all but one of them
C10_Witness ==
    /\ DeleteOf(lastOp)
    /\ lastOp.matched = 2
    /\ lastOp.out.val.deleted_count = 1
    /\ Cardinality(Matching(db[lastOp.call.c], lastOp.call.n)) = 1

\* C11: delete_mongo_item(c, n) on a collection c that holds no document
\* named n returns a result, with success:false and deleted_count 0.
C11_DeleteOfMissing ==
    (DeleteOf(lastOp) /\ lastOp.matched = 0) =>
        /\ lastOp.out.kind = "return"
        /\ lastOp.out.val.success = FALSE
        /\ lastOp.out.val.deleted_count = 0

\* such a call on a collection that holds documents of another name
C11_Witness ==
    /\ DeleteOf(lastOp)
    /\ lastOp.matched = 0
    /\ db[lastOp.call.c] # <<>>
    /\ lastOp.out.val.deleted_count = 0

\* C12: whatever the size of the collection and whatever adds and deletes
\* came before, list_all_in_collection returns at most 20 items, the first
\* ones of the collection, and its count is the number of items it returns.
C12_ListAtMostTwenty ==
    (lastOp.call.h = "list_all_in_collection" /\ lastOp.out.kind = "return") =>
        LET held == Len(db[lastOp.call.c])
            items == lastOp.out.val.items
        IN /\ Len(items) <= 20
           /\ Len(items) = IF held < 20 THEN held ELSE 20
           /\ lastOp.out.val.count = Len(items)
           /\ \A i \in 1..Len(items) : items[i].name = db[lastOp.call.c][i].name

\* a listing of a collection that holds more than 20 documents
C12_Witness ==
    /\ lastOp.call.h = "list_all_in_collection"
    /\ Len(db[lastOp.call.c]) > 20
    /\ lastOp.out.val.count = 20

----------------------------------------------------------------------------
(* Claims about run_sync and the requests that run side by side *)

\* C13: while the db_call_sync of one request is in flight inside run_sync,
\* the server still starts another request, and a request that is in flight
\* beside it can run to its end: only the request whose datastore call has
\* not returned waits for it.
C13_OthersNotBlocked ==
    \A r1 \in Slots : \A r2 \in Slots \ {r1} :
        req[r1].pc = "inflight" =>
            /\ (Accepting /\ req[r2] = Idle) =>
                  /\ ENABLED ReadResource(r2, AppInfoUri)
                  /\ ENABLED CallDelete(r2, "parts", "widget")
            /\ req[r2].pc = "inflight" => ENABLED WorkerRunConc(r2)

\* r1 is still in flight, and was when each of the last two calls ended,
\* both made by r2: the second of them began and ended beside r1
C13_Witness ==
    /\ req["r1"].pc = "inflight"
    /\ lastOp.r = "r2"
    /\ prevOp.r = "r2"
    /\ conc.prev = {"r1"}
    /\ conc.last = {"r1"}

\* C14: run_sync delivers the outcome of func and nothing else: every
\* finished handler call got from run_sync the value its db_call_sync
\* returned, or the exception it raised (get_app_info puts the value it
\* got into its own result, the other handlers return it as it is).
C14_BridgePassesOutcome ==
    lastOp.r # "none" =>
        /\ lastOp.func.kind = "raise" => lastOp.out = lastOp.func
        /\ lastOp.func.kind = "return" =>
              /\ lastOp.out.kind = "return"
              /\ IF lastOp.call.h = "get_app_info"
                 THEN lastOp.out.val.db_status = lastOp.func.val.db_status
                 ELSE lastOp.out.val = lastOp.func.val

\* an exception raised in the worker thread came out of the handler's await
C14_Witness ==
    /\ lastOp.func = Raise("OperationFailure")
    /\ lastOp.out = Raise("OperationFailure")
    /\ lastOp.client = "open"

\* C15: add_mongo_item called with an item_data that is not a dict returns
\* {success: false, error: "item_data must be a dictionary"} instead of
\* raising, inserts nothing and leaves the datastore as it was.
C15_NonDictRejected ==
    [][\A r \in Slots :
          (/\ req[r].pc = "inflight"
           /\ req[r].call.h = "add_mongo_item"
           /\ req[r].call.d.type # "dict"
           /\ req'[r] = Idle)
          => /\ lastOp'.out = Return([success |-> FALSE,
                                      error |-> "item_data must be a dictionary"])
             /\ UNCHANGED dataVars]_vars

\* C16: awaited with no event loop running, run_sync calls func directly and
\* its outcome is the one of the offloaded path.
C16_NoLoopRunsDirectly ==
    bridge.loop = "none" =>
        /\ bridge.ran
        /\ bridge.out = run_sync_in("running", bridge.func).out

\* C17: every request goes through run_sync once, and what its db_call_sync
\* does to the datastore happens there: a slot only goes from idle to in
\* flight (the handler reached its await, and nothing it did before touched
\* the datastore or ended a call) and from in flight to idle (the worker
\* thread ran db_call_sync and the handler returned); the datastore changes,
\* and a call ends, only in a step of the second kind, for one request.
C17_OnlyThroughBridge ==
    [][/\ \A r \in Slots :
             req'[r] # req[r] =>
                \/ /\ req[r] = Idle
                   /\ req'[r].pc = "inflight"
                   /\ UNCHANGED <<dataVars, opVars>>
                \/ /\ req[r].pc = "inflight"
                   /\ req'[r] = Idle
                   /\ lastOp'.r = r
                   /\ lastOp'.call = req[r].call
       /\ (dataVars' # dataVars \/ lastOp' # lastOp) =>
             /\ req[lastOp'.r].pc = "inflight"
             /\ req' = [req EXCEPT ![lastOp'.r] = Idle]]_vars

\* an insert made by a worker thread while the other request was in flight
C17_Witness ==
    /\ lastOp.call.h = "add_mongo_item"
    /\ ToolSucceeded(lastOp)
    /\ req[lastOp.r] = Idle
    /\ \E r \in Slots : req[r].pc = "inflight" /\ req[r].call.h = "get_mongo_item"

\* prevOp and lastOp are two delete_mongo_item(c, n) calls of two requests
\* that ran side by side: the second was in flight when the first ended
ConcurrentDeletes ==
    /\ DeleteOf(prevOp)
    /\ lastOp.call = prevOp.call
    /\ lastOp.r # prevOp.r
    /\ lastOp.r \in conc.prev

\* both slots carry the same delete_mongo_item(c, n), on a valid collection
BothDeleting ==
    /\ \A r \in Slots : req[r].pc = "inflight" /\ req[r].call.h = "delete_mongo_item"
    /\ req["r1"].call = req["r2"].call
    /\ req["r1"].call.c \in ValidCollections

\* C19: of two delete_mongo_item(c, n) that run side by side on a collection
\* with one document named n, whichever ends first returns success:true,
\* deleted_count 1 and the other success:false, deleted_count 0; with any
\* number of such documents, the deleted_count values of the two add up to
\* the number of documents removed.
C19_OneDeleteWins ==
    /\ [][\A r \in Slots :
             (BothDeleting /\ Matched(req[r].call) = 1 /\ req'[r] = Idle) =>
                 /\ lastOp'.out = Deleted(req[r].call.n)
                 /\ \A r2 \in Slots \ {r} : req'[r2] = req[r2]]_vars
    /\ [](ConcurrentDeletes =>
             /\ prevOp.matched = 1 => lastOp.out = NoneDeleted(lastOp.call.n)
             /\ prevOp.out.val.deleted_count + lastOp.out.val.deleted_count
                   = prevOp.matched - Matched(lastOp.call))

\* the two have ended, the first with the only document named n
C19_Witness ==
    /\ ConcurrentDeletes
    /\ prevOp.matched = 1
    /\ prevOp.out = Deleted(prevOp.call.n)
    /\ lastOp.out = NoneDeleted(lastOp.call.n)

----------------------------------------------------------------------------
(* Claims about what the handlers do to the datastore *)

\* the worker step that ends the call of slot r, made to one of the handlers hs
Ends(r, hs) ==
    /\ req[r].pc = "inflight"
    /\ req[r].call.h \in hs
    /\ req'[r] = Idle

Others(c) == \A c2 \in ValidCollections \ {c} : db'[c2] = db[c2]

\* the step appended one document to collection c and changed no other
InsertedOne(c) ==
    /\ c \in ValidCollections
    /\ Len(db'[c]) = Len(db[c]) + 1
    /\ SubSeq(db'[c], 1, Len(db[c])) = db[c]
    /\ Others(c)

\* the step removed one document from collection c and changed no other
RemovedOne(c) ==
    /\ c \in ValidCollections
    /\ \E i \in 1..Len(db[c]) : db'[c] = Remove(db[c], i)
    /\ Others(c)

ChangedByOne(call) ==
    IF call.h = "add_mongo_item" THEN InsertedOne(call.c) ELSE RemovedOne(call.c)

Tools == {"add_mongo_item", "delete_mongo_item"}

\* a success:false that carries the error of a lost connection
ConnectionLost(out) ==
    /\ out.kind = "return"
    /\ "error" \in DOMAIN out.val
    /\ out.val.error \in {"ConnectionFailure", LateError}

\* C18, as claimed: a tool call reports success:true exactly when it changed
\* the datastore, add_mongo_item by one document inserted into the named
\* collection and delete_mongo_item by one document removed from it, and a
\* call that reports success:false leaves every collection as it was.
C18_SuccessIffChanged ==
    [][\A r \in Slots :
          Ends(r, Tools) =>
             /\ ToolSucceeded(lastOp') <=> ChangedByOne(req[r].call)
             /\ ~ToolSucceeded(lastOp') => db' = db]_vars

\* C18, amended: a call that reports success:true changed the datastore in
\* that way, and a call that does not either left every collection as it was
\* or reports the error of a lost connection, after which the write may or
\* may not have been done.
C18_SuccessImpliesChanged ==
    [][\A r \in Slots :
          Ends(r, Tools) =>
             /\ ToolSucceeded(lastOp') => ChangedByOne(req[r].call)
             /\ ~ToolSucceeded(lastOp') =>
                   \/ db' = db
                   \/ ConnectionLost(lastOp'.out) /\ ChangedByOne(req[r].call)
             /\ db' # db => ChangedByOne(req[r].call)]_vars

\* an insert the server refused for its duplicate _id: success:false and the
\* collection, which holds the document of that _id, as it was
C18_Witness ==
    /\ lastOp.call.h = "add_mongo_item"
    /\ lastOp.out.kind = "return"
    /\ lastOp.out.val.success = FALSE
    /\ lastOp.out.val.error = "DuplicateKeyError"
    /\ Len(db[lastOp.call.c]) = 1

Resources ==
    {"get_app_info", "get_mongo_item", "list_all_in_collection", "list_mongo_collections"}

\* C20: the four resource handlers are read-only: whatever its arguments and
\* its outcome, a call of one of them leaves the documents of every
\* collection, the set of collections and the client as they were.
C20_ResourcesReadOnly ==
    [][\A r \in Slots :
          Ends(r, Resources) =>
             UNCHANGED <<db, materialized, nInserted, mongo_client, closeCount>>]_vars

\* a document found, and a listing that ended with an exception of the
\* driver, on a collection that holds documents
C20_Witness ==
    /\ prevOp.call.h = "add_mongo_item"
    /\ lastOp.call.h \in {"get_mongo_item", "list_all_in_collection"}
    /\ lastOp.call.c = prevOp.call.c
    /\ db[lastOp.call.c] # <<>>
    /\ \/ lastOp.out.kind = "raise"
       \/ lastOp.call.h = "get_mongo_item" /\ lastOp.out.val.found

====
